---- MODULE Spec2Model ----
(***************************************************************************)
(* The trend-forecasting subsystem of SentimentSage (src/ml_predictor.py): *)
(* prepare_time_features, train_prediction_model,                          *)
(* predict_future_sentiment and get_trend_analysis, as a state machine     *)
(* that walks one caller through get_trend_analysis, statement block by    *)
(* statement block.                                                        *)
(*                                                                         *)
(* Numbers.  polarity is held in halves (1 is +0.5, -2 is -1.0), so every  *)
(* value is an integer.  A rolling mean over k <= 5 values is held in      *)
(* sixtieths of that unit (60 = lcm(1..5)), and the column sentiment_std   *)
(* holds the SQUARE of the sample standard deviation in sixtieths          *)
(* (k(k-1) divides 60 for k = 2..5): both are exact, and two windows have  *)
(* the same std exactly when they have the same stored value.  A timestamp *)
(* is a number of hours since Monday 2024-01-01 00:00.                     *)
(*                                                                         *)
(* A pandas DataFrame is a sequence of rows; a row is a function from the  *)
(* names of the columns the frame has to their values.  A float column     *)
(* that can hold NaN (sentiment_std, next_sentiment) holds NaN or Num(v).  *)
(***************************************************************************)
EXTENDS Integers, Sequences, FiniteSets, TLC

(* ------------------------------ bounds ------------------------------- *)

\* longest input series (15 is the length of the spec's scenario A)
MaxLen == 15
\* longest repeating polarity pattern an input series is built from
MaxPat == 3
\* number of times the caller invokes get_trend_analysis on its frame
MaxCalls == 2

\* polarity values of the input records, in halves: -0.5, 0.0, +0.5
PolVals == {-1, 0, 1}

\* gaps (hours) between consecutive input timestamps, repeated cyclically:
\* daily; all equal (one datetime.now() for the whole frame); half a day,
\* then a record with the timestamp of the one before
GapPatterns == {<<24>>, <<0>>, <<12, 0>>}

\* timestamp of the first input record: Sunday 2024-01-21 09:00
StartHour == (20 * 24) + 9

(* --------------------------- program constants ----------------------- *)

\* rolling(window=5, min_periods=1)
Window == 5
\* predict_future_sentiment(..., num_periods=7)
NumPeriodsDefault == 7
\* if len(df) < 10
MinDataPoints == 10

InsufficientMsg == "Insufficient data for trend prediction. Need at least 10 data points."
ErrorPrefix == "Error in trend prediction: "
NaNMsg == "Input X contains NaN."

\* Python's None, and a str (kept apart from None by its field)
None == [none |-> TRUE]
Str(s) == [message |-> s]

(* ------------------------------ values ------------------------------- *)

NaN == [nan |-> TRUE, v |-> 0]
Num(x) == [nan |-> FALSE, v |-> x]
IsNaN(x) == x.nan

\* the same function or sequence, evaluated once (TLC keeps a function
\* constructor unevaluated and would recompute its values on every read)
Fn(f) == f @@ <<>>
Sq(s) == s \o <<>>

RECURSIVE SumSeq(_)
SumSeq(s) == IF s = <<>> THEN 0 ELSE Head(s) + SumSeq(Tail(s))

RECURSIVE SumSq(_)
SumSq(s) == IF s = <<>> THEN 0 ELSE (Head(s) * Head(s)) + SumSq(Tail(s))

Abs(x) == IF x < 0 THEN -x ELSE x

RECURSIVE Gcd(_, _)
Gcd(a, b) == IF b = 0 THEN a ELSE Gcd(b, a % b)

\* a rational num/den with den > 0, in lowest terms
Rat(n, d) ==
    LET g == Gcd(Abs(n), d)
    IN  [num |-> n \div g, den |-> d \div g]

RatAdd(a, b) == Rat((a.num * b.den) + (b.num * a.den), a.den * b.den)

RatDiv(a, k) == Rat(a.num, a.den * k)

(* ---------------------------- calendar ------------------------------- *)

DaysInMonth == <<31, 29, 31, 30, 31, 30, 31, 31, 30, 31, 30, 31>>

RECURSIVE MonthOfDay(_, _)
\* the month (1..12) of day d (0-based) counted from the first of month m
MonthOfDay(d, m) ==
    IF d < DaysInMonth[m] \/ m = 12 THEN m ELSE MonthOfDay(d - DaysInMonth[m], m + 1)

RECURSIVE DayOfMonth(_, _)
DayOfMonth(d, m) ==
    IF d < DaysInMonth[m] \/ m = 12 THEN d + 1 ELSE DayOfMonth(d - DaysInMonth[m], m + 1)

Hour(t) == t % 24
DayOfWeek(t) == (t \div 24) % 7
Day(t) == DayOfMonth(t \div 24, 1)
Month(t) == MonthOfDay(t \div 24, 1)

\* timestamp + timedelta(days=d)
AddDays(t, d) == t + (24 * d)

(* ----------------------- prepare_time_features ------------------------ *)

Polarities(rows) == Sq([k \in 1..Len(rows) |-> rows[k]["polarity"]])

\* a window one row too long
TrailingWindowWide(s, k) ==
    LET lo == IF k > Window THEN k - Window ELSE 1
    IN  SubSeq(s, lo, k)

\* the trailing window of row k: rows max(1, k-4) .. k
TrailingWindow(s, k) ==
    LET lo == IF k > Window THEN k - Window + 1 ELSE 1
    IN  SubSeq(s, lo, k)

\* mean of a non-empty window, in sixtieths
Mean60(w) == (SumSeq(w) * 60) \div Len(w)

\* the population standard deviation (ddof = 0), defined for one value
Std60Population(w) ==
    LET k == Len(w)
    IN  IF k < 1 THEN NaN
        ELSE Num((((k * SumSq(w)) - (SumSeq(w) * SumSeq(w))) * 60) \div (k * k))

\* sample standard deviation (ddof = 1) of a window, squared, in sixtieths;
\* NaN for a window of fewer than 2 values
Std60(w) ==
    LET k == Len(w)
    IN  IF k < 2 THEN NaN
        ELSE Num((((k * SumSq(w)) - (SumSeq(w) * SumSeq(w))) * 60) \div (k * (k - 1)))

RECURSIVE InsertByTimestamp(_, _)
\* row r put before the first row of a sorted frame that is not earlier
InsertByTimestamp(sorted, r) ==
    IF sorted = <<>> THEN <<r>>
    ELSE IF Head(sorted)["timestamp"] >= r["timestamp"]
         THEN <<r>> \o sorted
         ELSE <<Head(sorted)>> \o InsertByTimestamp(Tail(sorted), r)

RECURSIVE SortByTimestamp(_, _)
\* a sort by timestamp that is not stable: rows of one timestamp end up in
\* the reverse of their insertion order
SortByTimestamp(rows, acc) ==
    IF rows = <<>> THEN acc
    ELSE SortByTimestamp(Tail(rows), InsertByTimestamp(acc, Head(rows)))

\* feature construction that sorts the frame by timestamp first
prepare_time_features_sorted(rows) ==
    LET r == SortByTimestamp(rows, <<>>)
        pol == Polarities(r)
    IN  Sq([k \in 1..Len(r) |->
            [hour |-> Hour(r[k]["timestamp"]),
             day_of_week |-> DayOfWeek(r[k]["timestamp"]),
             day_of_month |-> Day(r[k]["timestamp"]),
             month |-> Month(r[k]["timestamp"]),
             rolling_avg_sentiment |-> Mean60(TrailingWindow(pol, k)),
             sentiment_std |-> Std60(TrailingWindow(pol, k))]
            @@ r[k]])

\* the frame with the six feature columns added (or overwritten)
prepare_time_features(rows) ==
    LET pol == Polarities(rows)
    IN  Sq([k \in 1..Len(rows) |->
            [hour |-> Hour(rows[k]["timestamp"]),
             day_of_week |-> DayOfWeek(rows[k]["timestamp"]),
             day_of_month |-> Day(rows[k]["timestamp"]),
             month |-> Month(rows[k]["timestamp"]),
             rolling_avg_sentiment |-> Mean60(TrailingWindow(pol, k)),
             sentiment_std |-> Std60(TrailingWindow(pol, k))]
            @@ rows[k]])

(* ----------------------- train_prediction_model ----------------------- *)

\* features = ['hour', ..., 'polarity'] (lines 36-37 and 76-77)
Features ==
    {"hour", "day_of_week", "day_of_month", "month",
     "rolling_avg_sentiment", "sentiment_std", "polarity"}

\* shift(1): the polarity of the row before
ShiftedPolarityBack(rows, k) ==
    IF k > 1 THEN Num(rows[k - 1]["polarity"]) ELSE NaN

\* df['polarity'].shift(-1): the polarity of the next row, NaN on the last row
ShiftedPolarity(rows, k) ==
    IF k < Len(rows) THEN Num(rows[k + 1]["polarity"]) ELSE NaN

\* the frame with the column next_sentiment added (or overwritten)
WithNextSentiment(rows) ==
    Sq([k \in 1..Len(rows) |->
        [next_sentiment |-> ShiftedPolarity(rows, k)] @@ rows[k]])

RECURSIVE DropNaTarget(_)
\* df.dropna(subset=['next_sentiment']): the rows whose target is not NaN
DropNaTarget(rows) ==
    IF rows = <<>> THEN <<>>
    ELSE IF IsNaN(Head(rows)["next_sentiment"])
         THEN DropNaTarget(Tail(rows))
         ELSE <<Head(rows)>> \o DropNaTarget(Tail(rows))

\* df[features] of one row; every value as Num(v) or NaN
FeatureVector(row) ==
    Fn([f \in Features |->
        IF f = "sentiment_std" THEN row[f] ELSE Num(row[f])])

\* numpy.random.RandomState(42).permutation(n), 1-based, for the frame sizes
\* the model reaches (MT19937 seeded with 42, Fisher-Yates from the top)
Permutation42(n) ==
    CASE n = 9  -> <<8, 2, 6, 1, 9, 3, 5, 4, 7>>
      [] n = 10 -> <<9, 2, 6, 1, 8, 3, 10, 5, 4, 7>>
      [] n = 11 -> <<6, 1, 10, 11, 3, 2, 9, 5, 8, 4, 7>>
      [] n = 12 -> <<11, 10, 1, 9, 6, 3, 2, 12, 5, 8, 4, 7>>
      [] n = 13 -> <<12, 10, 1, 9, 6, 3, 2, 13, 5, 8, 11, 4, 7>>
      [] n = 14 -> <<10, 12, 1, 13, 6, 9, 3, 2, 14, 5, 8, 11, 4, 7>>
      [] n = 15 -> <<10, 12, 1, 14, 6, 9, 3, 2, 15, 5, 8, 11, 13, 4, 7>>
      [] n = 16 -> <<1, 2, 6, 15, 14, 12, 9, 10, 3, 16, 5, 8, 11, 13, 4, 7>>
      [] n = 17 -> <<1, 2, 6, 16, 12, 15, 9, 14, 3, 10, 17, 5, 8, 11, 13, 4, 7>>

RECURSIVE Reverse(_)
Reverse(s) == IF s = <<>> THEN <<>> ELSE Append(Reverse(Tail(s)), Head(s))

\* a shuffle that is not seeded: another permutation on another call
SplitPermutationUnseeded(n, calls) ==
    IF calls % 2 = 1 THEN Permutation42(n) ELSE Reverse(Permutation42(n))

\* the seeded shuffle a call of train_test_split uses; calls is the number of
\* the call (the seed is the same on every call)
SplitPermutation(n, calls) == Permutation42(n)

\* a test share rounded down
train_test_split_floor(n, calls) ==
    LET perm == SplitPermutation(n, calls)
        n_test == n \div 5
    IN  [test |-> SubSeq(perm, 1, n_test),
         train |-> SubSeq(perm, n_test + 1, n)]

\* train_test_split(X, y, test_size=0.2, random_state=42) on n rows: the test
\* rows are the first ceil(0.2 n) of the permutation, the train rows the rest
train_test_split(n, calls) ==
    LET perm == SplitPermutation(n, calls)
        n_test == (n + 4) \div 5
    IN  [test |-> SubSeq(perm, 1, n_test),
         train |-> SubSeq(perm, n_test + 1, n)]

\* the values of feature f in a sequence of feature vectors, NaN left out
RECURSIVE FiniteValues(_, _)
FiniteValues(X, f) ==
    IF X = <<>> THEN <<>>
    ELSE IF IsNaN(Head(X)[f]) THEN FiniteValues(Tail(X), f)
         ELSE <<Head(X)[f].v>> \o FiniteValues(Tail(X), f)

\* StandardScaler().fit(X): per feature, over the values that are not NaN,
\* their count n, their sum (mean = sum / n) and ss = n * sum of squares -
\* sum squared (variance = ss / n^2; a feature of variance 0 has scale 1)
StandardScaler_fit(X) ==
    Fn([f \in Features |->
        LET w == FiniteValues(X, f)
        IN  [n |-> Len(w), sum |-> SumSeq(w),
             ss |-> (Len(w) * SumSq(w)) - (SumSeq(w) * SumSeq(w))]])

\* scaler.transform(X) of one feature vector: NaN stays NaN; a value x becomes
\* (x - mean) / scale, held as its numerator n * x - sum over the scaler's
\* constant n * scale
StandardScaler_transform(scaler, x) ==
    Fn([f \in Features |->
        IF IsNaN(x[f]) THEN NaN
        ELSE Num((scaler[f].n * x[f].v) - scaler[f].sum)])

HasNaN(x) == \E f \in Features : IsNaN(x[f])

\* The fitted regressor.  RandomForestRegressor(n_estimators=100,
\* random_state=42) is a library: a deterministic function of its training
\* set whose prediction is an average of training targets.  It is modelled
\* by the training set it memorises and a nearest-training-row lookup.
RandomForestRegressor_fit(X_train_scaled, y_train) ==
    [X |-> X_train_scaled, y |-> y_train]

\* distance of a scaled vector to training row j: on polarity, then on the
\* rolling average, then the row's position as the tie-break
Before(model, x, j, k) ==
    LET dp(m) == Abs(x["polarity"].v - model.X[m]["polarity"].v)
        da(m) == Abs(x["rolling_avg_sentiment"].v
                     - model.X[m]["rolling_avg_sentiment"].v)
    IN  \/ dp(j) < dp(k)
        \/ dp(j) = dp(k) /\ da(j) < da(k)
        \/ dp(j) = dp(k) /\ da(j) = da(k) /\ j <= k

\* model.predict(X)[0]
RandomForestRegressor_predict(model, x) ==
    LET j == CHOOSE j \in 1..Len(model.X) :
                 \A k \in 1..Len(model.X) : Before(model, x, j, k)
    IN  model.y[j]

\* model.score(X, y): the coefficient of determination R^2 = 1 - SSres/SStot,
\* as a rational; with SStot = 0 it is 1 for a perfect fit and 0 otherwise
RandomForestRegressor_score(model, X, y) ==
    LET n == Len(y)
        res == Sq([k \in 1..n |-> y[k] - RandomForestRegressor_predict(model, X[k])])
        tot == (n * SumSq(y)) - (SumSeq(y) * SumSeq(y))
    IN  IF tot = 0
        THEN (IF SumSq(res) = 0 THEN Rat(1, 1) ELSE Rat(0, 1))
        ELSE Rat(tot - (n * SumSq(res)), tot)

\* train_prediction_model(df) after lines 33-47: what it computes from the
\* rows that have a target.  raised is the message of the exception it
\* raises, None when it returns.
TrainOn(rows, accepts_nan, calls) ==
    LET n == Len(rows)
        X == Sq([k \in 1..n |-> FeatureVector(rows[k])])
        y == Sq([k \in 1..n |-> rows[k]["next_sentiment"].v])
        split == train_test_split(n, calls)
        X_train == Sq([k \in 1..Len(split.train) |-> X[split.train[k]]])
        X_test == Sq([k \in 1..Len(split.test) |-> X[split.test[k]]])
        y_train == Sq([k \in 1..Len(split.train) |-> y[split.train[k]]])
        y_test == Sq([k \in 1..Len(split.test) |-> y[split.test[k]]])
        scaler == StandardScaler_fit(X_train)
        X_train_scaled ==
            Sq([k \in 1..Len(X_train) |-> StandardScaler_transform(scaler, X_train[k])])
        X_test_scaled ==
            Sq([k \in 1..Len(X_test) |-> StandardScaler_transform(scaler, X_test[k])])
        model == RandomForestRegressor_fit(X_train_scaled, y_train)
        rejects(Xs) == ~accepts_nan /\ \E k \in 1..Len(Xs) : HasNaN(Xs[k])
    IN  IF rejects(X_train_scaled) \/ rejects(X_test_scaled)
        THEN [raised |-> Str(NaNMsg), model |-> None, scaler |-> None,
              split |-> split, train_score |-> None, test_score |-> None]
        ELSE [raised |-> None, model |-> model, scaler |-> scaler,
              split |-> split,
              train_score |-> RandomForestRegressor_score(model, X_train_scaled, y_train),
              test_score |-> RandomForestRegressor_score(model, X_test_scaled, y_test)]

(* ---------------------- predict_future_sentiment ---------------------- *)

RECURSIVE MaxOf(_)
MaxOf(s) ==
    IF Len(s) = 1 THEN s[1]
    ELSE LET m == MaxOf(Tail(s)) IN IF Head(s) > m THEN Head(s) ELSE m

\* df_copy['timestamp'].max()  (line 81)
LastTimestamp(rows) == MaxOf(Sq([k \in 1..Len(rows) |-> rows[k]["timestamp"]]))

\* the anchor read from the working series at each iteration
NextTimestampMoving(last_ts, working, iter) ==
    AddDays(LastTimestamp(working), iter + 1)

\* next_timestamp = last_timestamp + timedelta(days=i+1)  (line 89); working
\* is the working series at that iteration
NextTimestamp(last_ts, working, iter) == AddDays(last_ts, iter + 1)

\* lines 86-94: the last row of the working series, as a frame of one row,
\* with its timestamp overwritten and its features recomputed by
\* prepare_time_features on that one-row frame
LastData(working, next_timestamp) ==
    LET last_row == working[Len(working)]
    IN  prepare_time_features(
            <<[last_row EXCEPT !["timestamp"] = next_timestamp]>>)[1]

\* a new row that keeps the polarity it was copied with
NewRowStale(row, prediction) == row

\* lines 105-106: new_row = last_data.copy(); new_row['polarity'] = prediction
NewRow(row, prediction) == [row EXCEPT !["polarity"] = prediction]

\* lines 110-113
PredictionFrame(ts, preds) ==
    [k \in 1..Len(ts) |-> [timestamp |-> ts[k], predicted_sentiment |-> preds[k]]]

(* -------------------------- get_trend_analysis ------------------------ *)

\* the threshold off by one
InsufficientDataInclusive(rows) == Len(rows) <= MinDataPoints

\* len(df) < 10  (line 121)
InsufficientData(rows) == Len(rows) < MinDataPoints

\* the sum, not halved
ConfidenceSum(train, test) == RatAdd(train, test)

\* confidence = (train_score + test_score) / 2  (line 136)
Confidence(train, test) == RatDiv(RatAdd(train, test), 2)

\* a try block that ends after the training call
HandlerTrainOnly(stage) == IF stage = "train" THEN "except" ELSE "escaped"

\* where control goes when a statement of the try block (lines 128-146)
\* raises at position stage: `except Exception` (line 147) catches it
Handler(stage) == "except"

\* an error result that carries an empty prediction frame
ErrorResultWithFrame(message) ==
    [error |-> Str(message), predictions |-> <<>>, model_performance |-> None]

\* the error results of lines 122-126 and 148-152
ErrorResult(message) ==
    [error |-> Str(message), predictions |-> None, model_performance |-> None]

(* ------------------------------ state -------------------------------- *)

VARIABLES
    accepts_nan,    \* the installed RandomForestRegressor takes NaN in X
                    \* (scikit-learn >= 1.4) or raises ValueError on it
    df,             \* the caller's frame (the argument of get_trend_analysis)
    df0,            \* the caller's frame before the first call
    df_in,          \* the caller's frame when the current call began
    calls,          \* number of the current call
    previous,       \* the TrendResult of the call before, None on the first
    pc,             \* position of the caller in get_trend_analysis
    entered,        \* the stages the current call has entered
    exc,            \* the exception raised in the current call, or None
    result,         \* the returned TrendResult, None while the call runs
    \* locals of get_trend_analysis
    model, scaler, train_score, test_score,
    split,          \* the train/test row numbers of train_prediction_model
    \* locals of predict_future_sentiment
    num_periods, df_copy, last_timestamp, timestamps, predictions, i,
    last_data,      \* the one-row frame the model was last given
    X_pred_scaled   \* the scaled feature vector the model was last given

caller == <<accepts_nan, df0, calls, previous>>
trained == <<model, scaler, train_score, test_score, split>>
forecast == <<num_periods, df_copy, last_timestamp, timestamps, predictions, i,
              last_data, X_pred_scaled>>
vars == <<caller, df, df_in, pc, entered, exc, result, trained, forecast>>

\* record k (1-based) of the input series built from a polarity pattern and a
\* gap pattern
RECURSIVE TimestampAt(_, _)
TimestampAt(gaps, k) ==
    IF k = 1 THEN StartHour
    ELSE TimestampAt(gaps, k - 1) + gaps[((k - 2) % Len(gaps)) + 1]

InputSeries(n, pat, gaps) ==
    Sq([k \in 1..n |->
        [timestamp |-> TimestampAt(gaps, k),
         polarity |-> pat[((k - 1) % Len(pat)) + 1]]])

Patterns == UNION {[1..l -> PolVals] : l \in 1..MaxPat}

NoLocals ==
    /\ model = None /\ scaler = None /\ train_score = None /\ test_score = None
    /\ split = None
    /\ num_periods = 0 /\ df_copy = <<>> /\ last_timestamp = 0
    /\ timestamps = <<>> /\ predictions = <<>> /\ i = 0 /\ last_data = None
    /\ X_pred_scaled = None

Init ==
    /\ accepts_nan \in BOOLEAN
    /\ \E n \in 0..MaxLen, pat \in Patterns, gaps \in GapPatterns :
          df = InputSeries(n, pat, gaps)
    /\ df0 = df /\ df_in = df
    /\ calls = 1 /\ previous = None
    /\ pc = "call" /\ entered = {} /\ exc = None /\ result = None
    /\ NoLocals

\* lines 121-126
Guard ==
    /\ pc = "call"
    /\ IF InsufficientData(df)
       THEN /\ result' = ErrorResult(InsufficientMsg)
            /\ pc' = "done"
       ELSE /\ pc' = "train"
            /\ UNCHANGED result
    /\ UNCHANGED <<caller, df, df_in, entered, exc, trained, forecast>>

\* line 130: train_prediction_model(df), lines 28-65.  prepare_time_features
\* and the assignment of next_sentiment write into the frame they are given,
\* which is the caller's.
Train ==
    /\ pc = "train"
    /\ entered' = entered \cup {"train"}
    /\ \E prepared \in {WithNextSentiment(prepare_time_features(df))} :
       \E t \in {TrainOn(DropNaTarget(prepared), accepts_nan, calls)} :
           /\ df' = prepared
           /\ split' = t.split
           /\ IF t.raised # None
              THEN /\ exc' = t.raised
                   /\ pc' = Handler("train")
                   /\ UNCHANGED <<model, scaler, train_score, test_score>>
              ELSE /\ model' = t.model
                   /\ scaler' = t.scaler
                   /\ train_score' = t.train_score
                   /\ test_score' = t.test_score
                   /\ pc' = "predict"
                   /\ UNCHANGED exc
    /\ UNCHANGED <<caller, df_in, result, forecast>>

\* line 133, lines 72-81: the working series is a copy of the frame
PredictEnter ==
    /\ pc = "predict"
    /\ entered' = entered \cup {"predict"}
    /\ num_periods' = NumPeriodsDefault
    /\ df_copy' = prepare_time_features(df)
    /\ last_timestamp' = LastTimestamp(df_copy')
    /\ timestamps' = <<>>
    /\ predictions' = <<>>
    /\ i' = 0
    /\ pc' = "loop"
    /\ UNCHANGED <<caller, df, df_in, exc, result, trained, last_data,
                   X_pred_scaled>>

\* one iteration of the loop, lines 84-107
PredictStep ==
    /\ pc = "loop"
    /\ i < num_periods
    /\ \E next_timestamp \in {NextTimestamp(last_timestamp, df_copy, i)} :
       \E row \in {LastData(df_copy, next_timestamp)} :
       \E xs \in {StandardScaler_transform(scaler, FeatureVector(row))} :
       \E prediction \in {RandomForestRegressor_predict(model, xs)} :
           /\ timestamps' = Append(timestamps, next_timestamp)
           /\ last_data' = row
           /\ X_pred_scaled' = xs
           /\ IF ~accepts_nan /\ HasNaN(xs)
              THEN /\ exc' = Str(NaNMsg)
                   /\ pc' = Handler("predict")
                   /\ UNCHANGED <<predictions, df_copy, i>>
              ELSE /\ predictions' = Append(predictions, prediction)
                   /\ df_copy' = Append(df_copy, NewRow(row, prediction))
                   /\ i' = i + 1
                   /\ UNCHANGED <<exc, pc>>
    /\ UNCHANGED <<caller, df, df_in, entered, result, trained, num_periods,
                   last_timestamp>>

\* lines 110-115 and 136-146
Return ==
    /\ pc = "loop"
    /\ i = num_periods
    /\ result' = [error |-> None,
                  predictions |-> PredictionFrame(timestamps, predictions),
                  model_performance |->
                      [train_score |-> train_score,
                       test_score |-> test_score,
                       confidence |-> Confidence(train_score, test_score)]]
    /\ pc' = "done"
    /\ UNCHANGED <<caller, df, df_in, entered, exc, trained, forecast>>

\* lines 147-152
Except ==
    /\ pc = "except"
    /\ result' = ErrorResult(ErrorPrefix \o exc.message)
    /\ pc' = "done"
    /\ UNCHANGED <<caller, df, df_in, entered, exc, trained, forecast>>

\* the caller invokes get_trend_analysis again on the same series: on the
\* frame object it passed before, or on a fresh frame of the same records
CallAgain ==
    /\ pc = "done"
    /\ calls < MaxCalls
    /\ calls' = calls + 1
    /\ previous' = result
    /\ df' \in {df, df0}
    /\ df_in' = df'
    /\ pc' = "call" /\ entered' = {} /\ exc' = None /\ result' = None
    /\ model' = None /\ scaler' = None /\ train_score' = None
    /\ test_score' = None /\ split' = None
    /\ num_periods' = 0 /\ df_copy' = <<>> /\ last_timestamp' = 0
    /\ timestamps' = <<>> /\ predictions' = <<>> /\ i' = 0 /\ last_data' = None
    /\ X_pred_scaled' = None
    /\ UNCHANGED <<accepts_nan, df0>>

\* a statement of the try block fails for a reason of its own (any Exception:
\* a MemoryError, a library error)
FaultMsg == "fault"

Fault ==
    /\ pc \in {"train", "predict", "loop"}
    /\ exc' = Str(FaultMsg)
    /\ entered' = entered \cup {IF pc = "loop" THEN "predict" ELSE pc}
    /\ pc' = Handler(pc)
    /\ UNCHANGED <<caller, df, df_in, result, trained, forecast>>

Next ==
    \/ Guard
    \/ Train
    \/ PredictEnter
    \/ PredictStep
    \/ Return
    \/ Except
    \/ CallAgain

Spec == Init /\ [][Next]_vars

\* one call of get_trend_analysis in which any statement of the try block may
\* fail
NextFault ==
    \/ Guard
    \/ Train
    \/ PredictEnter
    \/ PredictStep
    \/ Return
    \/ Except
    \/ Fault

SpecFault == Init /\ [][NextFault]_vars

(* ------------------------------ claims -------------------------------- *)

\* C1: a series of fewer than 10 records (the empty one included) gets the
\* insufficient-data error with null predictions and null model_performance,
\* and the call enters neither the training nor the prediction stage; a
\* series of 10 records or more does not take that branch.
C1_InsufficientData ==
    /\ Len(df_in) < 10 =>
          /\ pc \in {"call", "done"}
          /\ entered = {}
          /\ pc = "done" =>
                result = [error |-> Str("Insufficient data for trend prediction. Need at least 10 data points."),
                          predictions |-> None,
                          model_performance |-> None]
    /\ (Len(df_in) >= 10 /\ pc = "done") =>
          /\ "train" \in entered
          /\ result.error # Str(InsufficientMsg)

C1_Witness ==
    /\ pc = "done"
    /\ Len(df_in) = 9
    /\ result.error = Str(InsufficientMsg)
    /\ entered = {}

\* C2: with 10 records or more, a failure of any statement of the training or
\* the prediction stage never leaves get_trend_analysis as an exception: the
\* call goes to the handler and returns error = "Error in trend prediction:
\* <message>" with null predictions and null model_performance.
C2_FailuresRecovered ==
    /\ pc \in {"call", "train", "predict", "loop", "except", "done"}
    /\ exc # None =>
          /\ Len(df_in) >= 10
          /\ pc \in {"except", "done"}
          /\ pc = "done" =>
                /\ result.error = Str("Error in trend prediction: " \o exc.message)
                /\ result.predictions = None
                /\ result.model_performance = None

C2_Witness ==
    /\ pc = "done"
    /\ exc = Str(FaultMsg)
    /\ "predict" \in entered
    /\ i > 0
    /\ result.error = Str("Error in trend prediction: fault")

\* C3: a returned TrendResult has one of two shapes: an error with null
\* predictions and null model_performance, or no error with predictions and
\* a model_performance whose train_score, test_score and confidence are all
\* present.
C3_ResultShape ==
    result # None =>
        \/ /\ result.error # None
           /\ result.predictions = None
           /\ result.model_performance = None
        \/ /\ result.error = None
           /\ result.predictions # None
           /\ result.model_performance # None
           /\ result.model_performance.train_score # None
           /\ result.model_performance.test_score # None
           /\ result.model_performance.confidence # None

C3_Witness ==
    /\ pc = "done"
    /\ result.error = None
    /\ Len(result.predictions) > 0
    /\ result.model_performance.confidence # None

\* C4: the forecast has num_periods entries (7 through get_trend_analysis);
\* entry k (1-based) is stamped k days after the last timestamp of the
\* original series, so the stamps rise by exactly one day; the anchor is
\* fixed before the loop and stays put while predicted rows are appended.
C4_DailyTimestamps ==
    /\ pc = "loop" =>
          /\ last_timestamp = df_in[Len(df_in)]["timestamp"]
          /\ Len(timestamps) = i
          /\ \A k \in 1..Len(timestamps) :
                timestamps[k] = df_in[Len(df_in)]["timestamp"] + (24 * k)
    /\ (pc = "done" /\ result.error = None) =>
          /\ num_periods = 7
          /\ Len(result.predictions) = num_periods
          /\ \A k \in 1..Len(result.predictions) :
                /\ result.predictions[k].timestamp
                       = df_in[Len(df_in)]["timestamp"] + (24 * k)
                /\ k > 1 => result.predictions[k].timestamp
                                = result.predictions[k - 1].timestamp + 24

C4_Witness ==
    /\ pc = "done"
    /\ result.error = None
    /\ Len(result.predictions) = 7
    /\ Len(df_copy) = Len(df_in) + 7

\* the working series as it was when the row in last_data was built: the
\* working series without the row appended since
WorkingBefore == SubSeq(df_copy, 1, Len(df_copy) - 1)

\* C5: at every forecast step the synthetic row given to the model has
\* rolling_avg_sentiment equal to the mean of the last up-to-5 polarity values
\* of the working series at that point, and sentiment_std equal to the
\* standard deviation over that window.
C5_RollingOverWorkingSeries ==
    (pc \in {"loop", "done"} /\ i > 0 /\ Len(df_copy) = Len(df_in) + i) =>
        LET pol == Polarities(WorkingBefore)
            w == TrailingWindow(pol, Len(pol))
        IN  /\ last_data["rolling_avg_sentiment"] = Mean60(w)
            /\ last_data["sentiment_std"] = Std60(w)

\* C6: 15 records with daily timestamps and polarity alternating +0.5/-0.5
\* give error = null and 7 predictions, one day apart, starting the day
\* after the last input timestamp; the undefined sentiment_std of a
\* one-point window makes neither stage fail.
C6_ScenarioA ==
    (pc = "done" /\ df0 = InputSeries(15, <<1, -1>>, <<24>>)) =>
        /\ result.error = None
        /\ Len(result.predictions) = 7
        /\ \A k \in 1..7 :
              result.predictions[k].timestamp = df0[15]["timestamp"] + (24 * k)

\* C7: a second call of get_trend_analysis on the same series returns the
\* predictions and the model_performance the call before returned.
C7_Deterministic ==
    (pc = "done" /\ calls >= 2) =>
        /\ result.error = previous.error
        /\ result.predictions = previous.predictions
        /\ result.model_performance = previous.model_performance

C7_Witness ==
    /\ pc = "done"
    /\ calls = 2
    /\ result.error = None
    /\ previous.error = None
    /\ result.predictions = previous.predictions
    /\ result.model_performance.train_score # result.model_performance.test_score

\* C8: when get_trend_analysis returns, with or without an error, the
\* caller's series is what it was when the call began: no column added, no
\* row appended, no value changed.
C8_InputUnchanged ==
    pc = "done" => df = df_in

RECURSIVE MinOf(_)
MinOf(s) ==
    IF Len(s) = 1 THEN s[1]
    ELSE LET m == MinOf(Tail(s)) IN IF Head(s) < m THEN Head(s) ELSE m

\* C9: 10 records of polarity 0.0 give error = null and 7 predictions that
\* are all 0.0; and every predicted value of a successful call lies between
\* the least and the greatest target of the training rows.
C9_ZeroSeries ==
    /\ (pc = "done" /\ Len(df0) = 10 /\ \A k \in 1..10 : df0[k]["polarity"] = 0) =>
          /\ result.error = None
          /\ Len(result.predictions) = 7
          /\ \A k \in 1..7 : result.predictions[k].predicted_sentiment = 0
    /\ (pc = "done" /\ result.error = None) =>
          \A k \in 1..Len(result.predictions) :
              /\ MinOf(model.y) <= result.predictions[k].predicted_sentiment
              /\ result.predictions[k].predicted_sentiment <= MaxOf(model.y)

\* C10: in a result without error, confidence is half the sum of the
\* train_score and the test_score of that result.
C10_ConfidenceIsMean ==
    (pc = "done" /\ result.error = None) =>
        LET a == result.model_performance.train_score
            b == result.model_performance.test_score
            c == result.model_performance.confidence
        IN  2 * c.num * a.den * b.den
                = c.den * ((a.num * b.den) + (b.num * a.den))

C10_Witness ==
    /\ pc = "done"
    /\ result.error = None
    /\ result.model_performance.train_score # result.model_performance.test_score
    /\ result.model_performance.confidence # result.model_performance.train_score

\* the caller's series has two neighbouring records of one timestamp and
\* different polarity
HasTie(rows) ==
    \E k \in 1..(Len(rows) - 1) :
        /\ rows[k]["timestamp"] = rows[k + 1]["timestamp"]
        /\ rows[k]["polarity"] # rows[k + 1]["polarity"]

RECURSIVE PolaritySum(_, _, _)
\* the sum of the polarity of rows lo..hi of a frame
PolaritySum(rows, lo, hi) ==
    IF lo > hi THEN 0 ELSE rows[lo]["polarity"] + PolaritySum(rows, lo + 1, hi)

\* first row of the 5-row window that ends at row k (1-based)
WindowStart(k) == IF k - 4 > 1 THEN k - 4 ELSE 1

\* C11: a series of 10 records or more in which records share a timestamp
\* does not make get_trend_analysis raise, and feature construction leaves
\* the rows in insertion order: row k of the frame with features is record k
\* of the input (tied records where they were), and its rolling window is
\* made of the records max(1, k-4) .. k of the input.
C11_InsertionOrder ==
    (Len(df_in) >= 10 /\ HasTie(df_in)) =>
        /\ pc \in {"call", "train", "predict", "loop", "except", "done"}
        /\ "train" \in entered =>
              /\ Len(df) = Len(df_in)
              /\ \A k \in 1..Len(df_in) :
                    /\ df[k]["timestamp"] = df_in[k]["timestamp"]
                    /\ df[k]["polarity"] = df_in[k]["polarity"]
                    /\ df[k]["rolling_avg_sentiment"] * (k - WindowStart(k) + 1)
                           = 60 * PolaritySum(df_in, WindowStart(k), k)
        /\ pc = "loop" =>
              \A k \in 1..Len(df_in) :
                  /\ df_copy[k]["timestamp"] = df_in[k]["timestamp"]
                  /\ df_copy[k]["polarity"] = df_in[k]["polarity"]

C11_Witness ==
    /\ pc = "done"
    /\ calls = 1
    /\ Len(df_in) >= 10
    /\ HasTie(df_in)
    /\ "predict" \in entered
    /\ result.error = None

\* C12: the working series is append-only and feeds each prediction to the
\* next step: it starts as the whole historical series, after i steps it has
\* n + i rows of which the first n are the historical ones, row n + k has the
\* k-th prediction as its polarity, and the polarity given to the model at a
\* step is the prediction of the step before (at the first step the polarity
\* of the last historical record).
C12_FeedbackRecurrence ==
    (pc = "loop" \/ (pc = "done" /\ result.error = None)) =>
        LET n == Len(df_in)
        IN  /\ Len(df_copy) = n + i
            /\ Len(predictions) = i
            /\ SubSeq(df_copy, 1, n) = df
            /\ \A k \in 1..n : df_copy[k]["polarity"] = df_in[k]["polarity"]
            /\ \A k \in 1..i : df_copy[n + k]["polarity"] = predictions[k]
            /\ i = 1 => last_data["polarity"] = df_in[n]["polarity"]
            /\ i > 1 => last_data["polarity"] = predictions[i - 1]

C12_Witness ==
    /\ pc = "done"
    /\ result.error = None
    /\ i = 7
    /\ Len(df_copy) = Len(df_in) + 7
    /\ \E k \in 1..6 : predictions[k] # predictions[k + 1]
    /\ last_data["polarity"] = predictions[6]

Range(s) == {s[k] : k \in 1..Len(s)}

\* the feature vectors of the rows of a frame whose numbers are in idx
RowsAt(rows, idx) == Sq([k \in 1..Len(idx) |-> FeatureVector(rows[idx[k]])])

\* C13: the scaler is the one fitted on the features of the training rows
\* alone, from the end of training to the end of the forecast; the model's
\* training matrix, the test rows behind test_score and every synthetic
\* future row are transformed with it; train and test rows are disjoint,
\* cover the n-1 rows that have a successor, and the test set has
\* ceil(0.2 (n-1)) of them.
C13_ScalerAndSplit ==
    (split # None) =>
        LET rows == DropNaTarget(df)
            m == Len(rows)
            t == Len(split.test)
        IN  /\ m = Len(df_in) - 1
            /\ Range(split.train) \cap Range(split.test) = {}
            /\ Range(split.train) \cup Range(split.test) = 1..m
            /\ Len(split.train) + t = m
            /\ 5 * t >= m
            /\ 5 * (t - 1) < m
            /\ model # None =>
                  LET X_train == RowsAt(rows, split.train)
                      X_test == RowsAt(rows, split.test)
                      y_test == Sq([k \in 1..t |-> rows[split.test[k]]["next_sentiment"].v])
                      fitted == StandardScaler_fit(X_train)
                  IN  /\ scaler = fitted
                      /\ model.X = Sq([k \in 1..Len(X_train) |->
                                         StandardScaler_transform(fitted, X_train[k])])
                      /\ test_score
                           = RandomForestRegressor_score(model,
                                 Sq([k \in 1..t |->
                                       StandardScaler_transform(fitted, X_test[k])]),
                                 y_test)
                      /\ i > 0 =>
                            X_pred_scaled
                              = StandardScaler_transform(fitted, FeatureVector(last_data))

C13_Witness ==
    /\ pc = "done"
    /\ result.error = None
    /\ Len(df_in) = 12
    /\ Len(split.test) = 3
    /\ Len(split.train) = 8
    /\ scaler["polarity"].n = 8
    /\ X_pred_scaled # None

\* C14: prepare_time_features gives row k the mean of the polarity of rows
\* max(1, k-4) .. k: a value for every row, the first included, and the same
\* value the row has when the rows after it are cut off.
C14_TrailingMean ==
    /\ "train" \in entered =>
          \A k \in 1..Len(df_in) :
              df[k]["rolling_avg_sentiment"] * (k - WindowStart(k) + 1)
                  = 60 * PolaritySum(df_in, WindowStart(k), k)
    /\ pc = "predict" =>
          \A k \in 1..Len(df_in) :
              prepare_time_features(SubSeq(df_in, 1, k))[k]["rolling_avg_sentiment"]
                  = df[k]["rolling_avg_sentiment"]

C14_Witness ==
    /\ pc = "predict"
    /\ Len(df_in) = 11
    /\ df_in[7]["polarity"] = 1
    /\ df_in[8]["polarity"] = -1
    /\ df_in[9]["polarity"] = 0
    /\ df[1]["rolling_avg_sentiment"] = 60 * df_in[1]["polarity"]
    /\ df[8]["rolling_avg_sentiment"] # df[9]["rolling_avg_sentiment"]

\* C15: prepare_time_features leaves sentiment_std undefined exactly on the
\* rows whose trailing window has fewer than 2 points, which is the first row
\* alone; a frame of one row gets rolling_avg_sentiment = polarity and an
\* undefined sentiment_std.
C15_StdUndefinedOnFirstRow ==
    /\ "train" \in entered =>
          \A k \in 1..Len(df_in) :
              IsNaN(df[k]["sentiment_std"]) <=> (k = 1)
    /\ last_data # None =>
          /\ last_data["rolling_avg_sentiment"] = 60 * last_data["polarity"]
          /\ last_data["sentiment_std"] = NaN

C15_Witness ==
    /\ pc = "loop"
    /\ i = 1
    /\ df[1]["sentiment_std"] = NaN
    /\ df[2]["sentiment_std"] # NaN
    /\ last_data["sentiment_std"] = NaN
    /\ last_data["rolling_avg_sentiment"] = 60 * df_in[Len(df_in)]["polarity"]

\* C16: in train_prediction_model the target of row k is the polarity of row
\* k + 1; the last row, which has none, is left out, so n records give n - 1
\* rows to train and evaluate on, each with the polarity of its successor as
\* its target.
C16_NextSentiment ==
    "train" \in entered =>
        LET n == Len(df_in)
        IN  /\ \A k \in 1..(n - 1) :
                  df[k]["next_sentiment"] = Num(df_in[k + 1]["polarity"])
            /\ df[n]["next_sentiment"] = NaN
            /\ Len(DropNaTarget(df)) = n - 1
            /\ Len(split.train) + Len(split.test) = n - 1
            /\ model # None =>
                  \A j \in 1..Len(split.train) :
                      /\ split.train[j] < n
                      /\ model.y[j] = df_in[split.train[j] + 1]["polarity"]

C16_Witness ==
    /\ pc = "predict"
    /\ Len(df_in) = 10
    /\ Len(model.y) = 7
    /\ Len(split.test) = 2
    /\ \E k \in 1..9 : df_in[k]["polarity"] # df_in[k + 1]["polarity"]
    /\ df[10]["next_sentiment"] = NaN

====
